---- MODULE Spec2Model ----
(***************************************************************************)
(* A model of libcodechecker/analyze/plist_parser.py and                   *)
(* libcodechecker/generic_package_suppress_handler.py.                     *)
(*                                                                         *)
(* Python dicts are TLA+ functions over the strings that are their keys:   *)
(* `k in d` is k \in DOMAIN d.  Python lists are sequences; the code's     *)
(* 0-based indices are kept in the data and converted where a list is      *)
(* indexed.  A raised exception is the name of its class, "none" when      *)
(* nothing was raised.  File paths are sequences of tokens, "/" being the  *)
(* separator.                                                              *)
(***************************************************************************)
EXTENDS Integers, Sequences, FiniteSets, TLC

VARIABLES
    plistFile,     \* content of the persisted bundle (the plist file)
    brokenSrc,     \* source paths whose content hash cannot be computed
    calls,         \* number of operations performed so far
    parseRes,      \* what the last parse_plist call returned and did
    pawRes,        \* what the last parse_and_write call returned and wrote
    filterRes,     \* what the last remove_report_from_plist call returned
    fmt,           \* the PlistToPlaintextFormatter object
    handler,       \* the GenericSuppressHandler object
    suppressFile,  \* records of the suppress file (the backing store)
    storeRes,      \* what the last suppress handler operation returned
    passRes        \* what the last __write_bugs pass returned and wrote

vars == <<plistFile, brokenSrc, calls, parseRes, pawRes, filterRes, fmt,
          handler, suppressFile, storeRes, passRes>>

(***************************************************************************)
(* Bounds of the model.                                                    *)
(***************************************************************************)
MaxDiags == 2
MaxCalls == 3
MaxReports == 2
MaxRecords == 2
MaxPasses == 1

(***************************************************************************)
(* Python values.                                                          *)
(***************************************************************************)
NoneVal == "<None>"
NoExc == "none"
HashKey == "issue_hash_content_of_line_in_context"

Has(d, k) == k \in DOMAIN d
Get(d, k) == IF k \in DOMAIN d THEN d[k] ELSE NoneVal
Put(d, k, v) == [x \in DOMAIN d \cup {k} |-> IF x = k THEN v ELSE d[x]]
Falsy(v) == v = NoneVal \/ v = ""

\* seq[i] of Python: 0-based, a negative index counts from the end.
InRange(seq, i) == i \in (0 - Len(seq))..(Len(seq) - 1)
Index(seq, i) == IF i < 0 THEN seq[Len(seq) + i + 1] ELSE seq[i + 1]

RECURSIVE FilterSeq(_, _)
FilterSeq(seq, keep) ==
    IF seq = <<>> THEN <<>>
    ELSE (IF keep[1] THEN <<Head(seq)>> ELSE <<>>)
         \o FilterSeq(Tail(seq), Tail(keep))

(***************************************************************************)
(* os.path.                                                                *)
(***************************************************************************)
RECURSIVE rfind(_, _)
rfind(p, tok) ==
    IF p = <<>> THEN 0
    ELSE IF p[Len(p)] = tok THEN Len(p)
    ELSE rfind(SubSeq(p, 1, Len(p) - 1), tok)

basename(p) == SubSeq(p, rfind(p, "/") + 1, Len(p))

RECURSIVE lstrip(_, _)
lstrip(p, tok) ==
    IF p # <<>> /\ Head(p) = tok THEN lstrip(Tail(p), tok) ELSE p

join(a, b) ==
    IF b # <<>> /\ Head(b) = "/" THEN b
    ELSE IF a = <<>> \/ a[Len(a)] = "/" THEN a \o b
    ELSE a \o <<"/">> \o b

(***************************************************************************)
(* The diagnostic bundles the model is run on.                             *)
(***************************************************************************)
FileA == <<"/", "x", "/", "a.c">>
FileA2 == <<"/", "y", "/", "a.c">>
FileB == <<"/", "x", "/", "b.c">>
SourceRoot == <<"/", "r">>

Loc(f, l) == [file |-> f, line |-> l, col |-> 1]
Event(f, l) == [kind |-> "event", location |-> Loc(f, l), message |-> "msg"]
Control(f, l) == [kind |-> "control", location |-> Loc(f, l)]

\* A diagnostic with every field of the schema; hash "" is a present, empty
\* hash field.
Diag(f, h, chk) ==
    [location |-> Loc(f, 1), path |-> <<Event(f, 1)>>, check_name |-> chk,
     description |-> "d"] @@ (HashKey :> h)
Without(d, k) == [x \in DOMAIN d \ {k} |-> d[x]]

ParseFiles == <<FileA, FileB>>

ParseDiags ==
    { Without(Diag(0, "", "c1"), HashKey),
      Without(Diag(1, "", "c2"), HashKey),
      Diag(0, "H1", "c1"),
      Diag(1, "", "c1"),
      Without(Diag(2, "", "c1"), HashKey),
      Without(Diag(0, "H1", "c1"), "location"),
      Without(Diag(0, "H2", "c1"), "path"),
      Without(Without(Diag(0, "", "c1"), HashKey), "check_name") }

RECURSIVE SeqsUpTo(_, _)
SeqsUpTo(S, n) ==
    IF n = 0 THEN {<<>>}
    ELSE LET shorter == SeqsUpTo(S, n - 1)
         IN shorter \cup {Append(s, x) : s \in shorter, x \in S}

DictRoot(d) == [type |-> "dict", val |-> d]
ArrayRoot == [type |-> "array", val |-> <<>>]
Serialized(root) == [kind |-> "plist", root |-> root]
Garbage == [kind |-> "garbage"]
Missing == [kind |-> "missing"]
Bundle(files, diags) ==
    Serialized(DictRoot([files |-> files, diagnostics |-> diags]))

ParseContents ==
    {Bundle(ParseFiles, ds) : ds \in SeqsUpTo(ParseDiags, MaxDiags)}
    \cup { Garbage, Missing, Serialized(ArrayRoot),
           Serialized(DictRoot([diagnostics |-> <<Diag(0, "H1", "c1")>>])),
           Serialized(DictRoot([files |-> ParseFiles])) }

(***************************************************************************)
(* plistlib.                                                               *)
(***************************************************************************)
\* readPlist / readPlistFromString: the parsed root, or the exception.
readPlist(content) ==
    CASE content.kind = "missing" -> [exc |-> "IOError", root |-> ArrayRoot]
      [] content.kind = "garbage" -> [exc |-> "ExpatError", root |-> ArrayRoot]
      [] OTHER -> [exc |-> NoExc, root |-> content.root]

writePlist(root) == Serialized(root)

\* root[key] of Python: what it raises.
SubscriptExc(root, key) ==
    IF root.type # "dict" THEN "TypeError"
    ELSE IF key \notin DOMAIN root.val THEN "KeyError"
    ELSE NoExc

(***************************************************************************)
(* Identity hash resolution.                                               *)
(***************************************************************************)
get_checker_name(diagnostic) ==
    LET checker_name == Get(diagnostic, "check_name")
    IN IF Falsy(checker_name) THEN "unknown" ELSE checker_name

\* libcodechecker.report.generate_report_hash: a deterministic function of
\* the bug path, the source file and the checker name, which fails when the
\* source file cannot be read.
generate_report_hash(path, source_file, checker_name, broken) ==
    IF source_file \in broken
    THEN [exc |-> "IOError", val |-> NoneVal]
    ELSE [exc |-> NoExc,
          val |-> "G" \o ToString(<<path, source_file, checker_name>>)]

get_report_hash(diagnostic, source_file, broken) ==
    LET report_hash == Get(diagnostic, HashKey)
    IN IF ~Falsy(report_hash) THEN [exc |-> NoExc, val |-> report_hash]
       ELSE IF ~Has(diagnostic, "path")
            THEN [exc |-> "KeyError", val |-> NoneVal]
       ELSE generate_report_hash(diagnostic.path, source_file,
                                 get_checker_name(diagnostic), broken)

(***************************************************************************)
(* parse_plist.                                                            *)
(***************************************************************************)
Report(main, bugpath, files) ==
    [main |-> main, bug_path |-> bugpath, files |-> files]
NoReport == Report(<<>>, <<>>, <<>>)

\* Lines 118-122: a hash that was not in the plist is set in the diagnostic
\* and the diagnostic section counts as changed.
SetMissingHashNoWriteBack(diag, report_hash) ==
    IF ~Has(diag, HashKey)
    THEN [diag |-> diag, changed |-> TRUE]
    ELSE [diag |-> diag, changed |-> FALSE]

SetMissingHash(diag, report_hash) ==
    IF ~Has(diag, HashKey)
    THEN [diag |-> Put(diag, HashKey, report_hash), changed |-> TRUE]
    ELSE [diag |-> diag, changed |-> FALSE]

\* Lines 98-106 and 115: the main section of a diagnostic whose hash is
\* report_hash.
MainSection(diag, report_hash) ==
    Put(Put([key \in DOMAIN diag \ {"path"} |-> diag[key]],
            "check_name", get_checker_name(diag)),
        HashKey, report_hash)

\* Lines 110-112.
FilePath(entry, source_root) ==
    IF source_root # <<>> THEN join(source_root, lstrip(entry, "/"))
    ELSE entry

DiagFailed(diag, e) ==
    [exc |-> e, report |-> NoReport, diag |-> diag, changed |-> FALSE]

\* Lines 124-127, `set` being what lines 118-122 gave.
DiagReport(diag, files, report_hash, set) ==
    IF ~Has(diag, "path")
    THEN [exc |-> "KeyError", report |-> NoReport, diag |-> set.diag,
          changed |-> set.changed]
    ELSE [exc |-> NoExc,
          report |-> Report(MainSection(diag, report_hash), diag.path, files),
          diag |-> set.diag, changed |-> set.changed]

\* Lines 114-127, `hash` being what get_report_hash gave.
DiagHashed(diag, files, hash) ==
    IF hash.exc # NoExc THEN DiagFailed(diag, hash.exc)
    ELSE DiagReport(diag, files, hash.val, SetMissingHash(diag, hash.val))

\* Lines 96-127: one iteration of the loop over plist['diagnostics'].
ParseDiag(diag, files, source_root, broken) ==
    IF ~Has(diag, "location") THEN DiagFailed(diag, "KeyError")
    ELSE IF ~InRange(files, diag.location.file)
    THEN DiagFailed(diag, "IndexError")
    ELSE DiagHashed(diag, files,
             get_report_hash(diag,
                 FilePath(Index(files, diag.location.file), source_root),
                 broken))

ParseAccContinuing(acc, it) ==
    [reports |-> IF it.exc = NoExc THEN Append(acc.reports, it.report)
                 ELSE acc.reports,
     diags |-> Append(acc.diags, it.diag),
     diag_changed |-> acc.diag_changed \/ it.changed,
     exc |-> NoExc]

ParseAcc(acc, it) ==
    [reports |-> IF it.exc = NoExc THEN Append(acc.reports, it.report)
                 ELSE acc.reports,
     diags |-> Append(acc.diags, it.diag),
     diag_changed |-> acc.diag_changed \/ it.changed,
     exc |-> it.exc]

\* Lines 93-127: the loop, which an exception leaves with the reports
\* appended so far.
RECURSIVE ParseLoop(_, _, _, _, _)
ParseLoop(diags, files, source_root, broken, acc) ==
    IF diags = <<>> \/ acc.exc # NoExc THEN acc
    ELSE ParseLoop(Tail(diags), files, source_root, broken,
             ParseAcc(acc, ParseDiag(Head(diags), files, source_root,
                                     broken)))

\* Lines 134-152: the except clauses and the return in the finally block.
\* The exception that reaches the caller.
PropagatedWithoutCatchAll(exc) ==
    IF exc \in {"ExpatError", "TypeError", "AttributeError", "IndexError"}
    THEN NoExc ELSE exc

Propagated(exc) == NoExc

ParseOut(files, reports, exc, dirty, wrote, new) ==
    [files |-> files, reports |-> reports, exc |-> exc, dirty |-> dirty,
     wrote |-> wrote, content |-> new]

\* Lines 129-133, `loop` being what the loop gave.  writeOk: whether the
\* plist file can be written.
ParseUpdateWhenDirty(content, plist, loop, allow_plist_update, writeOk) ==
    IF loop.exc # NoExc
    THEN ParseOut(plist.files, loop.reports, loop.exc, loop.diag_changed,
                  FALSE, content)
    ELSE IF loop.diag_changed
    THEN IF writeOk
         THEN ParseOut(plist.files, loop.reports, NoExc, TRUE, TRUE,
                  writePlist(DictRoot(
                      [plist EXCEPT !.diagnostics = loop.diags])))
         ELSE ParseOut(plist.files, loop.reports, "IOError", TRUE, FALSE,
                       content)
    ELSE ParseOut(plist.files, loop.reports, NoExc, loop.diag_changed,
                  FALSE, content)

ParseUpdate(content, plist, loop, allow_plist_update, writeOk) ==
    IF loop.exc # NoExc
    THEN ParseOut(plist.files, loop.reports, loop.exc, loop.diag_changed,
                  FALSE, content)
    ELSE IF loop.diag_changed /\ allow_plist_update
    THEN IF writeOk
         THEN ParseOut(plist.files, loop.reports, NoExc, TRUE, TRUE,
                  writePlist(DictRoot(
                      [plist EXCEPT !.diagnostics = loop.diags])))
         ELSE ParseOut(plist.files, loop.reports, "IOError", TRUE, FALSE,
                       content)
    ELSE ParseOut(plist.files, loop.reports, NoExc, loop.diag_changed,
                  FALSE, content)

\* Lines 91-133, `read` being what readPlist gave.
ParseRead(content, read, source_root, allow_plist_update, broken, writeOk) ==
    IF read.exc # NoExc
    THEN ParseOut(<<>>, <<>>, read.exc, FALSE, FALSE, content)
    ELSE IF SubscriptExc(read.root, "files") # NoExc
    THEN ParseOut(<<>>, <<>>, SubscriptExc(read.root, "files"), FALSE,
                  FALSE, content)
    ELSE IF SubscriptExc(read.root, "diagnostics") # NoExc
    THEN ParseOut(read.root.val.files, <<>>,
                  SubscriptExc(read.root, "diagnostics"), FALSE, FALSE,
                  content)
    ELSE ParseUpdate(content, read.root.val,
             ParseLoop(read.root.val.diagnostics, read.root.val.files,
                       source_root, broken,
                       [reports |-> <<>>, diags |-> <<>>,
                        diag_changed |-> FALSE, exc |-> NoExc]),
             allow_plist_update, writeOk)

\* Lines 86-133: the try block.
ParseBody(content, source_root, allow_plist_update, broken, writeOk) ==
    ParseRead(content, readPlist(content), source_root, allow_plist_update,
              broken, writeOk)

\* Lines 134-152: `logged` is the exception the try block raised, `raised`
\* the one that reaches the caller.
ParseReturn(body) ==
    [files |-> body.files, reports |-> body.reports,
     logged |-> body.exc, raised |-> Propagated(body.exc),
     dirty |-> body.dirty, wrote |-> body.wrote,
     content |-> body.content]

\* parse_plist(path, source_root, allow_plist_update), `content` being the
\* content of the file at path.
parse_plist(content, source_root, allow_plist_update, broken, writeOk) ==
    ParseReturn(ParseBody(content, source_root, allow_plist_update, broken,
                          writeOk))

(***************************************************************************)
(* GenericSuppressHandler.  A suppress record is the tuple                 *)
(* <<hash, file name, comment>>; the suppress file is the sequence of its  *)
(* records.                                                                *)
(***************************************************************************)
\* suppress_file_handler.get_suppress_data: the records of the file.
get_suppress_data(file) == file

\* suppress_file_handler.write_to_suppress_file: appends the record.
write_to_suppress_file(file, bug_id, file_name, comment) ==
    [ret |-> TRUE, file |-> Append(file, <<bug_id, file_name, comment>>)]

\* suppress_file_handler.remove_from_suppress_file: drops the records of
\* the hash and file name.
remove_from_suppress_file(file, bug_id, file_name) ==
    [ret |-> TRUE,
     file |-> FilterSeq(file, [i \in 1..Len(file) |->
                  ~(file[i][1] = bug_id /\ file[i][2] = file_name)])]

NoHandler ==
    [state |-> "none", suppress_info |-> <<>>, allow_write |-> FALSE,
     have_memory_backend |-> FALSE]

NewHandler(state, allow_write, have_memory_backend) ==
    [state |-> state, suppress_info |-> <<>>, allow_write |-> allow_write,
     have_memory_backend |-> have_memory_backend]

\* __revalidate_suppress_data: the handler after the call.
revalidate_suppress_data(h, file) ==
    IF ~h.have_memory_backend THEN h
    ELSE [h EXCEPT !.suppress_info = get_suppress_data(file)]

\* __init__(suppress_file, allow_write); has_file: a suppress file is given.
SuppressHandlerInitLenient(has_file, allow_write, file) ==
    IF has_file
    THEN revalidate_suppress_data(NewHandler("ready", allow_write, TRUE),
                                  file)
    ELSE NewHandler("ready", allow_write, FALSE)

SuppressHandlerInit(has_file, allow_write, file) ==
    IF has_file
    THEN revalidate_suppress_data(NewHandler("ready", allow_write, TRUE),
                                  file)
    ELSE IF allow_write THEN NewHandler("ValueError", allow_write, FALSE)
    ELSE NewHandler("ready", allow_write, FALSE)

\* What a mutation of the suppress file, which gave w, leaves behind.
MutatedNoReload(h, w) == [ret |-> w.ret, h |-> h, file |-> w.file]

Mutated(h, w) ==
    [ret |-> w.ret, h |-> revalidate_suppress_data(h, w.file),
     file |-> w.file]

store_suppress_bug_id_unguarded(h, file, bug_id, file_name, comment) ==
    Mutated(h, write_to_suppress_file(file, bug_id, file_name, comment))

store_suppress_bug_id(h, file, bug_id, file_name, comment) ==
    IF ~h.allow_write THEN [ret |-> TRUE, h |-> h, file |-> file]
    ELSE Mutated(h, write_to_suppress_file(file, bug_id, file_name, comment))

remove_suppress_bug_id(h, file, bug_id, file_name) ==
    IF ~h.allow_write THEN [ret |-> TRUE, h |-> h, file |-> file]
    ELSE Mutated(h, remove_from_suppress_file(file, bug_id, file_name))

\* any([...]) of Python: some element of the list is truthy; a tuple is
\* truthy when it is not empty.
get_suppressed_full_path(h, bug) ==
    \E i \in 1..Len(h.suppress_info) :
        /\ h.suppress_info[i][1] = bug.hash_value
        /\ h.suppress_info[i][2] = bug.file_path
        /\ h.suppress_info[i] # <<>>

get_suppressed(h, bug) ==
    \E i \in 1..Len(h.suppress_info) :
        /\ h.suppress_info[i][1] = bug.hash_value
        /\ h.suppress_info[i][2] = basename(bug.file_path)
        /\ h.suppress_info[i] # <<>>

(***************************************************************************)
(* PlistToPlaintextFormatter.                                              *)
(***************************************************************************)
\* The source lines that carry an inline suppression marker, and the
\* checker each marker names.
InlineMarkers ==
    { [file |-> FileA, line |-> 2, checker |-> "c1", comment |-> "ok"],
      [file |-> FileB, line |-> 2, checker |-> "c2", comment |-> "fp"] }

MarkersAt(source_file, bug_line, checker_name) ==
    {m \in InlineMarkers : /\ m.file = source_file
                           /\ m.line = bug_line
                           /\ m.checker = checker_name}

\* suppress_handler.SourceSuppressHandler(...).get_suppressed(): the tuple
\* (hash, file name, comment) when the reported line carries a marker for
\* the checker.
SourceSuppressHandler(source_file, bug_line, bug_hash, checker_name) ==
    IF MarkersAt(source_file, bug_line, checker_name) = {}
    THEN [found |-> FALSE, data |-> <<>>]
    ELSE [found |-> TRUE,
          data |-> <<bug_hash, basename(source_file),
                     (CHOOSE m \in MarkersAt(source_file, bug_line,
                                             checker_name) : TRUE).comment>>]

\* util.get_line: the source line, '' when it cannot be read.
get_line(source_file, line) == IF source_file = FileB THEN "" ELSE "code"

Inc(d, k) ==
    IF k \in DOMAIN d THEN [d EXCEPT ![k] = @ + 1] ELSE Put(d, k, 1)

RECURSIVE SumOver(_, _)
SumOver(d, keys) ==
    IF keys = {} THEN 0
    ELSE d[CHOOSE x \in keys : TRUE]
         + SumOver(d, keys \ {CHOOSE x \in keys : TRUE})
SumValues(d) == SumOver(d, DOMAIN d)

RECURSIVE Digits(_)
Digits(n) == IF n < 10 THEN 1 ELSE 1 + Digits(n \div 10)

should_skip(skiplist_handler, f) == f \in skiplist_handler.skip

\* __format_location
format_location(event, source_file) ==
    IF get_line(source_file, event.location.line) = "" THEN <<>>
    ELSE <<get_line(source_file, event.location.line), "^",
           event.location.col - 1>>

\* __format_bug_event: the text, or the KeyError of event['message'].
format_bug_event(name, severity, event, source_file) ==
    IF ~Has(event, "message") THEN [exc |-> "KeyError", text |-> <<>>]
    ELSE IF ~Falsy(name)
    THEN [exc |-> NoExc,
          text |-> <<severity, basename(source_file), event.location.line,
                     event.location.col, event.message, name>>]
    ELSE [exc |-> NoExc,
          text |-> <<basename(source_file), event.location.line,
                     event.location.col, event.message>>]

\* Line 357: the argument of LOG.debug is report + ' is skipped (in ...',
\* and a Report has no addition: evaluating it raises.
SkipMessage == "TypeError"

Item(w, rep, text) == [w |-> w, rep |-> rep, text |-> text]

\* Lines 407-414: the steps of one report; `width` is that of index_format.
RECURSIVE WriteSteps(_, _, _, _, _, _)
StepWritten(events, index, files, width, rep, out, ev) ==
    IF ev.exc # NoExc THEN [exc |-> ev.exc, out |-> out]
    ELSE WriteSteps(events, index + 1, files, width, rep,
                    Append(out, Item("step", rep, ev.text)))

WriteSteps(events, index, files, width, rep, out) ==
    IF index > Len(events) THEN [exc |-> NoExc, out |-> out]
    ELSE IF ~InRange(files, events[index].location.file)
    THEN [exc |-> "IndexError",
          out |-> Append(out, Item("index", rep, <<index, width>>))]
    ELSE StepWritten(events, index, files, width, rep,
             Append(out, Item("index", rep, <<index, width>>)),
             format_bug_event(NoneVal, NoneVal, events[index],
                              Index(files, events[index].location.file)))

\* How an iteration of the loop over the reports ended.
Ended(acc, rep, fate, e) ==
    [acc EXCEPT !.exc = e,
                !.log = Append(@, [rep |-> rep, fate |-> fate])]

\* Line 353.
Events(report) ==
    FilterSeq(report.bug_path,
              [j \in 1..Len(report.bug_path) |->
                  Get(report.bug_path[j], "kind") = "event"])

\* Lines 390-391.
Severity(f, checker_name) ==
    IF checker_name \in DOMAIN f.severity_map
    THEN f.severity_map[checker_name] ELSE "UNSPECIFIED"

\* Lines 389-393.
CountedNoFile(acc, f_path, severity) ==
    [acc EXCEPT !.severity_stats = Inc(@, severity),
                !.report_count = Inc(@, "report_count")]

Counted(acc, f_path, severity) ==
    [acc EXCEPT !.file_stats = Inc(@, f_path),
                !.severity_stats = Inc(@, severity),
                !.report_count = Inc(@, "report_count")]

\* Lines 404-414.
StepsOut(f, events, files, report_num, rep, hash_value, out) ==
    IF f.print_steps
    THEN WriteSteps(events, 1, files, Digits(report_num), rep,
                    out \o <<Item("hash", rep, <<hash_value>>),
                             Item("steps", rep, <<>>)>>)
    ELSE [exc |-> NoExc, out |-> out]

\* Lines 415-417, `steps` being what lines 404-414 gave.
Rendered(counted, rep, steps) ==
    IF steps.exc # NoExc
    THEN Ended([counted EXCEPT !.output = steps.out], rep, "raised",
               steps.exc)
    ELSE Ended([counted EXCEPT !.output = steps.out,
                               !.non_suppressed = @ + 1],
               rep, "rendered", NoExc)

\* Lines 395-417, `head` being what __format_bug_event gave.
RenderHead(counted, rep, head, location, f, events, files, report_num, hash_value) ==
    IF head.exc # NoExc THEN Ended(counted, rep, "raised", head.exc)
    ELSE Rendered(counted, rep,
             StepsOut(f, events, files, report_num, rep, hash_value,
                 counted.output \o <<Item("bug", rep, head.text),
                                     Item("location", rep, location)>>))

\* Lines 389-417: the report is rendered and counted.
Render(report, rep, files, report_num, f, acc, events, f_path, last_report_event, source_file) ==
    RenderHead(
        Counted(acc, f_path, Severity(f, report.main.check_name)), rep,
        format_bug_event(report.main.check_name,
                         Severity(f, report.main.check_name),
                         last_report_event, source_file),
        format_location(last_report_event, source_file),
        f, events, files, report_num, report.main[HashKey])

InlineStored(acc, rep, st) ==
    Ended([acc EXCEPT !.h = st.h, !.file = st.file], rep, "inline", NoExc)

\* Lines 380-387: a suppress comment was found.
InlineNotStored(acc, rep, f, data) == Ended(acc, rep, "inline", NoExc)

Inline(acc, rep, f, data) ==
    IF f.suppress_handler
    THEN InlineStored(acc, rep,
             store_suppress_bug_id(acc.h, acc.file, data[1], data[2],
                                   data[3]))
    ELSE Ended(acc, rep, "inline", NoExc)

\* Lines 379-417, `suppress_data` being what the source suppress handler
\* gave.
SourceCheckedNoMarker(report, rep, files, report_num, f, acc, events, f_path, last_report_event, source_file, suppress_data) ==
    Render(report, rep, files, report_num, f, acc, events, f_path,
           last_report_event, source_file)

SourceChecked(report, rep, files, report_num, f, acc, events, f_path, last_report_event, source_file, suppress_data) ==
    IF suppress_data.found THEN Inline(acc, rep, f, suppress_data.data)
    ELSE Render(report, rep, files, report_num, f, acc, events, f_path,
                last_report_event, source_file)

\* Lines 368-417.
NotSuppressed(report, rep, files, report_num, f, acc, events, f_path, last_report_event) ==
    IF ~InRange(files, last_report_event.location.file)
    THEN Ended(acc, rep, "raised", "IndexError")
    ELSE SourceChecked(report, rep, files, report_num, f, acc, events,
             f_path, last_report_event,
             Index(files, last_report_event.location.file),
             SourceSuppressHandler(
                 Index(files, last_report_event.location.file),
                 last_report_event.location.line, report.main[HashKey],
                 report.main.check_name))

\* Lines 355-417, f_path being the file of the last event.
Located(report, rep, files, report_num, f, acc, events, f_path) ==
    IF f.skiplist_handler.configured
       /\ should_skip(f.skiplist_handler, f_path)
    THEN Ended(acc, rep, "skipped", SkipMessage)
    ELSE IF f.suppress_handler
            /\ get_suppressed(acc.h, [hash_value |-> report.main[HashKey],
                                      file_path |-> f_path])
    THEN Ended(acc, rep, "suppressed", NoExc)
    ELSE NotSuppressed(report, rep, files, report_num, f, acc, events,
                       f_path, Index(report.bug_path, -1))

\* Lines 354-417, `events` being the events of the bug path.
WithEvents(report, rep, files, report_num, f, acc, events) ==
    IF ~InRange(events, -1) THEN Ended(acc, rep, "raised", "IndexError")
    ELSE IF ~InRange(files, Index(events, -1).location.file)
    THEN Ended(acc, rep, "raised", "IndexError")
    ELSE Located(report, rep, files, report_num, f, acc, events,
                 Index(files, Index(events, -1).location.file))

\* Lines 353-417: one iteration of the loop over the reports.
WriteBug(report, rep, files, report_num, f, acc) ==
    WithEvents(report, rep, files, report_num, f, acc, Events(report))

RECURSIVE WriteLoop(_, _, _, _, _)
WriteLoop(reports, rep, files, f, acc) ==
    IF rep > Len(reports) \/ acc.exc # NoExc THEN acc
    ELSE WriteLoop(reports, rep + 1, files, f,
             WriteBug(reports[rep], rep, files, Len(reports), f, acc))

\* Lines 419-422.
BasefilePrint(analyzed_source_file) ==
    IF analyzed_source_file # <<>>
    THEN <<" ", basename(analyzed_source_file)>> ELSE <<>>

\* Lines 424-430.
Summary(non_suppressed, basefile_print) ==
    IF non_suppressed = 0 THEN Item("found_none", 0, basefile_print)
    ELSE Item("found", 0, <<non_suppressed>> \o basefile_print)

\* Lines 419-434, `loop` being what the loop gave: `raised` is the
\* exception that leaves __write_bugs, `stats` the report_stats it filled,
\* h and file the suppress handler and the suppress file after it.
WriteReturn(loop, analyzed_source_file) ==
    IF loop.exc # NoExc
    THEN [raised |-> loop.exc, output |-> loop.output, stats |-> <<>>,
          non_suppressed |-> loop.non_suppressed, log |-> loop.log,
          h |-> loop.h, file |-> loop.file]
    ELSE [raised |-> NoExc,
          output |-> Append(loop.output,
                        Summary(loop.non_suppressed,
                                BasefilePrint(analyzed_source_file))),
          stats |-> [severity |-> loop.severity_stats,
                     files |-> loop.file_stats,
                     reports |-> loop.report_count],
          non_suppressed |-> loop.non_suppressed, log |-> loop.log,
          h |-> loop.h, file |-> loop.file]

\* __write_bugs(output, reports, files, analyzed_source_file, report_stats)
write_bugs(reports, files, analyzed_source_file, f, h, file) ==
    WriteReturn(
        WriteLoop(reports, 1, files, f,
            [severity_stats |-> <<>>, file_stats |-> <<>>,
             report_count |-> <<>>, output |-> <<>>, non_suppressed |-> 0,
             log |-> <<>>, h |-> h, file |-> file, exc |-> NoExc]),
        analyzed_source_file)

NoPass(h, file) ==
    [raised |-> NoExc, output |-> <<>>, stats |-> <<>>,
     non_suppressed |-> 0, log |-> <<>>, h |-> h, file |-> file]

\* Lines 450-453, `pass` being what __write_bugs gave.
PawWritten(parsed, pass) ==
    [ret |-> IF pass.raised # NoExc THEN "raised" ELSE "stats",
     parsed |-> parsed, pass |-> pass]

\* Lines 442-453, `parsed` being what parse_plist gave.
PawParsed(parsed, analyzed_source_file, f, h, file) ==
    IF parsed.raised # NoExc
    THEN [ret |-> "1", parsed |-> parsed, pass |-> NoPass(h, file)]
    ELSE PawWritten(parsed,
             write_bugs(parsed.reports, parsed.files, analyzed_source_file,
                        f, h, file))

\* parse_and_write(plist_file, analyzed_source_file, output): `ret` says
\* what it returned: "1", the report_stats dict ("stats"), or nothing
\* because an exception left it ("raised").
parse_and_write(content, analyzed_source_file, f, h, file, broken, writeOk) ==
    PawParsed(parse_plist(content, <<>>, TRUE, broken, writeOk),
              analyzed_source_file, f, h, file)

(***************************************************************************)
(* The file-exclusion filter.                                              *)
(***************************************************************************)
NoFids == [exc |-> NoExc, fids |-> <<>>]

\* for l in locs: fids.append(l['file'])
RECURSIVE FidsOfLocs(_, _)
FidsOfLocs(locs, acc) ==
    IF locs = <<>> \/ acc.exc # NoExc THEN acc
    ELSE FidsOfLocs(Tail(locs),
             IF Has(Head(locs), "file")
             THEN [acc EXCEPT !.fids = Append(@, Head(locs).file)]
             ELSE [acc EXCEPT !.exc = "KeyError"])

RECURSIVE RangeLoop(_, _)
RangeLoop(rng, acc) ==
    IF rng = <<>> \/ acc.exc # NoExc THEN acc
    ELSE RangeLoop(Tail(rng), FidsOfLocs(Head(rng), acc))

fids_in_range(rng) == RangeLoop(rng, NoFids)

RECURSIVE EdgeLoop(_, _)
EdgeLoop(edges, acc) ==
    IF edges = <<>> \/ acc.exc # NoExc THEN acc
    ELSE IF ~Has(Head(edges), "start") \/ ~Has(Head(edges), "end")
    THEN [acc EXCEPT !.exc = "KeyError"]
    ELSE EdgeLoop(Tail(edges),
             FidsOfLocs(Head(edges).end,
                        FidsOfLocs(Head(edges).start, acc)))

fids_in_edge(edges) == EdgeLoop(edges, NoFids)

\* except KeyError: pass
OrNothing(got) == IF got.exc = NoExc THEN got.fids ELSE <<>>

\* Lines 198-217: the file ids of one path element.
PathElementFids(pe) ==
    (IF Has(pe, "ranges") THEN OrNothing(fids_in_range(pe.ranges)) ELSE <<>>)
    \o (IF Has(pe, "location") /\ Has(pe.location, "file")
        THEN <<pe.location.file>> ELSE <<>>)
    \o (IF Has(pe, "edges") THEN OrNothing(fids_in_edge(pe.edges)) ELSE <<>>)

RECURSIVE PathFids(_)
PathFids(path) ==
    IF path = <<>> THEN <<>>
    ELSE PathElementFids(Head(path)) \o PathFids(Tail(path))

SeqToSet(seq) == {seq[i] : i \in 1..Len(seq)}

\* An iteration that drops a diagnostic when any file of its path is
\* to be removed.
KeepDiagByPath(acc, diag, file_ids_to_remove) ==
    IF ~Has(diag, "location") \/ ~Has(diag.location, "file")
    THEN [acc EXCEPT !.exc = "KeyError"]
    ELSE IF ~Has(diag, "path") THEN [acc EXCEPT !.exc = "KeyError"]
    ELSE IF (SeqToSet(PathFids(diag.path)) \cup {diag.location.file})
            \cap file_ids_to_remove # {}
    THEN acc
    ELSE [acc EXCEPT !.kept_diagnostics = Append(@, diag),
                     !.all_fids = @ \o PathFids(diag.path)]

\* Lines 192-217: one iteration of the loop over the diagnostics.
KeepDiag(acc, diag, file_ids_to_remove) ==
    IF ~Has(diag, "location") \/ ~Has(diag.location, "file")
    THEN [acc EXCEPT !.exc = "KeyError"]
    ELSE IF diag.location.file \in file_ids_to_remove THEN acc
    ELSE IF ~Has(diag, "path")
    THEN [acc EXCEPT !.exc = "KeyError",
                     !.kept_diagnostics = Append(@, diag)]
    ELSE [acc EXCEPT !.kept_diagnostics = Append(@, diag),
                     !.all_fids = @ \o PathFids(diag.path)]

RECURSIVE FidsLoop(_, _, _)
FidsLoop(diagnostics, file_ids_to_remove, acc) ==
    IF diagnostics = <<>> \/ acc.exc # NoExc THEN acc
    ELSE FidsLoop(Tail(diagnostics), file_ids_to_remove,
                  KeepDiag(acc, Head(diagnostics), file_ids_to_remove))

\* fids_in_path(report_data, file_ids_to_remove), given
\* report_data['diagnostics'].
fids_in_path(diagnostics, file_ids_to_remove) ==
    FidsLoop(diagnostics, file_ids_to_remove,
             [exc |-> NoExc, all_fids |-> <<>>, kept_diagnostics |-> <<>>])

\* Lines 246-248.
FileIdsToRemove(files, skip_handler) ==
    {i \in 0..(Len(files) - 1) : should_skip(skip_handler, Index(files, i))}

\* Lines 251-260, `kept` being what fids_in_path gave.
FilterKept(plist_content, report_data, kept) ==
    IF kept.exc = "KeyError" THEN [raised |-> NoExc, ret |-> plist_content]
    ELSE [raised |-> NoExc,
          ret |-> writePlist(DictRoot(
                      [report_data EXCEPT
                         !.diagnostics = kept.kept_diagnostics]))]

\* Lines 245-260, report_data being a dict with 'files'.
FilterData(plist_content, report_data, skip_handler) ==
    IF ~Has(report_data, "diagnostics")
    THEN [raised |-> NoExc, ret |-> plist_content]
    ELSE FilterKept(plist_content, report_data,
             fids_in_path(report_data.diagnostics,
                          FileIdsToRemove(report_data.files, skip_handler)))

\* Lines 234-260, `read` being what readPlistFromString gave.
FilterRead(plist_content, read, skip_handler) ==
    IF read.exc \in {"ExpatError", "TypeError", "AttributeError"}
    THEN [raised |-> NoExc, ret |-> plist_content]
    ELSE IF read.exc # NoExc
    THEN [raised |-> read.exc, ret |-> plist_content]
    ELSE IF SubscriptExc(read.root, "files") = "KeyError"
    THEN [raised |-> NoExc, ret |-> plist_content]
    ELSE IF SubscriptExc(read.root, "files") # NoExc
    THEN [raised |-> SubscriptExc(read.root, "files"), ret |-> plist_content]
    ELSE FilterData(plist_content, read.root.val, skip_handler)

\* remove_report_from_plist(plist_content, skip_handler): `raised` is the
\* exception that leaves it, `ret` the content it returns.
remove_report_from_plist(plist_content, skip_handler) ==
    FilterRead(plist_content, readPlist(plist_content), skip_handler)

\* Lines 269-273, `new` being what remove_report_from_plist gave.
SkipWritten(content, new) ==
    IF new.raised # NoExc THEN [raised |-> new.raised, content |-> content]
    ELSE [raised |-> NoExc, content |-> new.ret]

\* skip_report_from_plist(plist_file, skip_handler): the exception that
\* leaves it and the content of the file after it.
skip_report_from_plist(content, skip_handler) ==
    IF content.kind = "missing"
    THEN [raised |-> "IOError", content |-> content]
    ELSE SkipWritten(content, remove_report_from_plist(content, skip_handler))

(***************************************************************************)
(* The state machine.  Every record of a call holds n, the number of the   *)
(* call (0: no such call yet), the arguments and what the call gave.       *)
(***************************************************************************)
Idle == [n |-> 0]

\* What a record of a parse_plist call keeps of the call before it.
Earlier(pr) ==
    IF pr.n = 0 THEN Idle
    ELSE [n |-> pr.n, before |-> pr.before, source_root |-> pr.source_root,
          wrote |-> pr.res.wrote, reports |-> pr.res.reports]

PlainFormatter ==
    [suppress_handler |-> FALSE,
     skiplist_handler |-> [configured |-> FALSE, skip |-> {}],
     severity_map |-> [c1 |-> "HIGH"], print_steps |-> FALSE]

\* parse_plist(path, source_root, allow_plist_update) on the plist file.
ParsePlistDone(source_root, allow_plist_update, res) ==
    /\ parseRes' = [n |-> calls + 1, before |-> plistFile,
                    source_root |-> source_root,
                    allow_plist_update |-> allow_plist_update, res |-> res,
                    prev |-> Earlier(parseRes)]
    /\ plistFile' = res.content

ParsePlist ==
    /\ calls < MaxCalls
    /\ \E source_root \in {<<>>, SourceRoot}, allow_plist_update \in BOOLEAN,
          writeOk \in BOOLEAN :
         ParsePlistDone(source_root, allow_plist_update,
             parse_plist(plistFile, source_root, allow_plist_update,
                         brokenSrc, writeOk))
    /\ calls' = calls + 1
    /\ UNCHANGED <<brokenSrc, pawRes, filterRes, fmt, handler, suppressFile,
                   storeRes, passRes>>

\* parse_and_write(plist_file, analyzed_source_file) of the formatter.
ParseAndWriteDone(analyzed, res) ==
    /\ pawRes' = [n |-> calls + 1, before |-> plistFile,
                  analyzed |-> analyzed, ret |-> res.ret, pass |-> res.pass]
    /\ parseRes' = [n |-> calls + 1, before |-> plistFile,
                    source_root |-> <<>>, allow_plist_update |-> TRUE,
                    res |-> res.parsed, prev |-> Earlier(parseRes)]
    /\ plistFile' = res.parsed.content
    /\ handler' = res.pass.h
    /\ suppressFile' = res.pass.file

ParseAndWrite ==
    /\ calls < MaxCalls
    /\ \E analyzed \in {<<>>, FileA}, writeOk \in BOOLEAN :
         ParseAndWriteDone(analyzed,
             parse_and_write(plistFile, analyzed, fmt, handler,
                             suppressFile, brokenSrc, writeOk))
    /\ calls' = calls + 1
    /\ UNCHANGED <<brokenSrc, filterRes, fmt, storeRes, passRes>>

InitParse ==
    /\ plistFile \in ParseContents
    /\ brokenSrc \in {{}, {FileB}}
    /\ calls = 0
    /\ parseRes = Idle
    /\ pawRes = Idle
    /\ filterRes = Idle
    /\ fmt = PlainFormatter
    /\ handler = NoHandler
    /\ suppressFile = <<>>
    /\ storeRes = Idle
    /\ passRes = Idle

NextParse == ParsePlist \/ ParseAndWrite

SpecParse == InitParse /\ [][NextParse]_vars

(***************************************************************************)
(* Claims about the parser.                                                *)
(***************************************************************************)
\* The file table and the diagnostics of a content, empty when the content
\* holds none.
FileTableOf(content) ==
    IF content.kind = "plist" /\ content.root.type = "dict"
       /\ Has(content.root.val, "files")
    THEN content.root.val.files ELSE <<>>

DiagnosticsOf(content) ==
    IF content.kind = "plist" /\ content.root.type = "dict"
       /\ Has(content.root.val, "diagnostics")
    THEN content.root.val.diagnostics ELSE <<>>

\* C1: every parse_plist call returns to its caller, with the file table
\* of the bundle (empty when none was read) and a record for each of zero
\* or more of the bundle's diagnostics, whatever was raised on the way.
ParseAlwaysReturns ==
    parseRes.n > 0 =>
        /\ parseRes.res.raised = NoExc
        /\ parseRes.res.files = FileTableOf(parseRes.before)
        /\ Len(parseRes.res.reports) <= Len(DiagnosticsOf(parseRes.before))
        /\ parseRes.res.logged = NoExc =>
               Len(parseRes.res.reports) = Len(DiagnosticsOf(parseRes.before))

\* A call that failed in the middle of the loop and returned the reports
\* it had.
ParseFailedMidLoop ==
    /\ parseRes.n > 0
    /\ parseRes.res.logged \in {"IndexError", "KeyError", "IOError"}
    /\ parseRes.res.raised = NoExc
    /\ Len(parseRes.res.reports) > 0
    /\ Len(parseRes.res.reports) < Len(DiagnosticsOf(parseRes.before))

\* A parse that follows, with the same source root, a parse that rewrote
\* the bundle.
Reparsed ==
    /\ parseRes.n > 0
    /\ parseRes.prev.n > 0
    /\ parseRes.prev.wrote
    /\ parseRes.prev.source_root = parseRes.source_root

\* C2: parsing again a bundle that a parse has rewritten gives every
\* diagnostic that lacked a hash the hash the first parse gave it, does not
\* mark the bundle dirty and does not rewrite it.
EnrichmentIdempotent ==
    Reparsed =>
        /\ ~parseRes.res.dirty
        /\ ~parseRes.res.wrote
        /\ plistFile = parseRes.before
        /\ \A i \in 1..Len(DiagnosticsOf(parseRes.prev.before)) :
              ~Has(DiagnosticsOf(parseRes.prev.before)[i], HashKey) =>
                  /\ i <= Len(parseRes.res.reports)
                  /\ i <= Len(parseRes.prev.reports)
                  /\ parseRes.res.reports[i].main[HashKey]
                       = parseRes.prev.reports[i].main[HashKey]
                  /\ ~Falsy(parseRes.res.reports[i].main[HashKey])

\* A second parse of a bundle whose first parse derived a hash and rewrote
\* the bundle.
EnrichedThenReparsed ==
    /\ Reparsed
    /\ \E i \in 1..Len(DiagnosticsOf(parseRes.prev.before)) :
          ~Has(DiagnosticsOf(parseRes.prev.before)[i], HashKey)
    /\ Len(parseRes.res.reports) = Len(DiagnosticsOf(parseRes.prev.before))

\* C9: parse_and_write returns the failure indicator 1 whenever the bundle
\* cannot be read or parsed, and the statistics only when it was parsed.
ParseFailureIsReported ==
    pawRes.n > 0 =>
        /\ pawRes.before.kind \in {"garbage", "missing"} => pawRes.ret = "1"
        /\ pawRes.ret = "stats" => pawRes.before.kind = "plist"

(***************************************************************************)
(* The filter on the persisted bundle.                                     *)
(***************************************************************************)
FilterFiles == <<FileA, FileB>>

\* A diagnostic at file f with the given path.
PathDiag(f, path) == [Diag(f, "H1", "c1") EXCEPT !.path = path]

FilterDiags ==
    { PathDiag(0, <<Put(Event(0, 1), "ranges",
                        <<<<Loc(1, 1), Loc(1, 2)>>>>)>>),
      PathDiag(1, <<Put(Event(1, 1), "edges",
                        <<[start |-> <<Loc(0, 1)>>,
                           end |-> <<Loc(0, 2)>>]>>)>>),
      PathDiag(0, <<Put(Control(0, 1), "edges",
                        <<[start |-> <<Loc(1, 1)>>,
                           end |-> <<Loc(1, 2)>>]>>),
                    Event(0, 2)>>),
      PathDiag(2, <<Event(2, 1)>>),
      Without(Diag(0, "H1", "c1"), "location"),
      Without(Diag(0, "H1", "c1"), "path"),
      Without(Diag(1, "H1", "c1"), "path"),
      PathDiag(0, <<Put(Event(0, 1), "ranges",
                        <<<<[line |-> 1, col |-> 1]>>>>)>>) }

FilterContents ==
    {Bundle(FilterFiles, ds) : ds \in SeqsUpTo(FilterDiags, MaxDiags)}
    \cup { Garbage, Serialized(ArrayRoot),
           Serialized(DictRoot([diagnostics |-> <<Diag(0, "H1", "c1")>>])),
           Serialized(DictRoot([files |-> FilterFiles])) }

SkipHandlers ==
    {[configured |-> TRUE, skip |-> x] : x \in {{}, {FileB}, {FileA, FileB}}}

\* remove_report_from_plist(plist_content, skip_handler) on the content of
\* the plist file.
RemoveReportDone(skip_handler, res) ==
    filterRes' = [n |-> calls + 1, op |-> "remove", before |-> plistFile,
                  skip |-> skip_handler.skip, raised |-> res.raised,
                  ret |-> res.ret]

RemoveReport ==
    /\ calls < MaxCalls
    /\ \E skip_handler \in SkipHandlers :
         RemoveReportDone(skip_handler,
             remove_report_from_plist(plistFile, skip_handler))
    /\ calls' = calls + 1
    /\ UNCHANGED <<plistFile, brokenSrc, parseRes, pawRes, fmt, handler,
                   suppressFile, storeRes, passRes>>

\* skip_report_from_plist(plist_file, skip_handler)
SkipReportDone(skip_handler, res) ==
    /\ filterRes' = [n |-> calls + 1, op |-> "skip", before |-> plistFile,
                     skip |-> skip_handler.skip, raised |-> res.raised,
                     ret |-> res.content]
    /\ plistFile' = res.content

SkipReport ==
    /\ calls < MaxCalls
    /\ \E skip_handler \in SkipHandlers :
         SkipReportDone(skip_handler,
             skip_report_from_plist(plistFile, skip_handler))
    /\ calls' = calls + 1
    /\ UNCHANGED <<brokenSrc, parseRes, pawRes, fmt, handler, suppressFile,
                   storeRes, passRes>>

InitFilter ==
    /\ plistFile \in FilterContents
    /\ brokenSrc = {}
    /\ calls = 0
    /\ parseRes = Idle
    /\ pawRes = Idle
    /\ filterRes = Idle
    /\ fmt = PlainFormatter
    /\ handler = NoHandler
    /\ suppressFile = <<>>
    /\ storeRes = Idle
    /\ passRes = Idle

NextFilter == RemoveReport \/ SkipReport

SpecFilter == InitFilter /\ [][NextFilter]_vars

(***************************************************************************)
(* Claims about the filter.                                                *)
(***************************************************************************)
HasLocation(diag) == Has(diag, "location") /\ Has(diag.location, "file")

\* The content has the files / diagnostics / location structure.
Structured(content) ==
    /\ content.kind = "plist"
    /\ content.root.type = "dict"
    /\ Has(content.root.val, "files")
    /\ Has(content.root.val, "diagnostics")
    /\ \A i \in 1..Len(content.root.val.diagnostics) :
          HasLocation(content.root.val.diagnostics[i])

\* The content is a bundle: every diagnostic has its location and path.
IsBundle(content) ==
    /\ Structured(content)
    /\ \A i \in 1..Len(content.root.val.diagnostics) :
          Has(content.root.val.diagnostics[i], "path")

\* The primary-location file of the diagnostic satisfies exclude.
Excluded(files, diag, skip) ==
    /\ diag.location.file \in 0..(Len(files) - 1)
    /\ files[diag.location.file + 1] \in skip

Retained(files, diags, skip) ==
    FilterSeq(diags, [i \in 1..Len(diags) |->
                         ~Excluded(files, diags[i], skip)])

\* C3: filtering a bundle keeps exactly the diagnostics whose
\* primary-location file is not excluded, in their order, whatever files
\* their paths mention in ranges and edges, and keeps the file table as it
\* was.
ExclusionCorrect ==
    (filterRes.n > 0 /\ IsBundle(filterRes.before)) =>
        /\ filterRes.raised = NoExc
        /\ Structured(filterRes.ret)
        /\ FileTableOf(filterRes.ret) = FileTableOf(filterRes.before)
        /\ DiagnosticsOf(filterRes.ret)
             = Retained(FileTableOf(filterRes.before),
                        DiagnosticsOf(filterRes.before), filterRes.skip)
        /\ filterRes.op = "skip" => plistFile = filterRes.ret

\* A filtered bundle that lost a diagnostic and kept one whose path
\* mentions an excluded file.
FilteredSome ==
    /\ filterRes.n > 0
    /\ IsBundle(filterRes.before)
    /\ Len(DiagnosticsOf(filterRes.ret)) = 1
    /\ Len(DiagnosticsOf(filterRes.before)) = 2
    /\ \E fid \in SeqToSet(PathFids(DiagnosticsOf(filterRes.ret)[1].path)) :
          /\ fid \in 0..(Len(FilterFiles) - 1)
          /\ FilterFiles[fid + 1] \in filterRes.skip

\* C4: the filter never raises, and gives back the original content when
\* the content lacks the files / diagnostics / location structure.
FilterNeverRaises ==
    filterRes.n > 0 =>
        /\ filterRes.raised = NoExc
        /\ ~Structured(filterRes.before) =>
               /\ filterRes.ret = filterRes.before
               /\ plistFile = filterRes.before

(***************************************************************************)
(* The suppression store on its own.                                       *)
(***************************************************************************)
Hashes == {"H1", "H2"}
FileNames == {<<"a.c">>, <<"b.c">>}
SuppressRecords == {<<h, f, "">> : h \in Hashes, f \in FileNames}
QueryPaths == {FileA, FileA2, FileB, <<"a.c">>, <<"/", "x", "/">>}

\* GenericSuppressHandler(suppress_file, allow_write)
Construct ==
    /\ handler.state = "none"
    /\ \E has_file \in BOOLEAN, allow_write \in BOOLEAN :
         /\ handler' = SuppressHandlerInit(has_file, allow_write,
                                           suppressFile)
         /\ storeRes' = [n |-> calls + 1, op |-> "init",
                         has_file |-> has_file, allow_write |-> allow_write]
    /\ calls' = calls + 1
    /\ UNCHANGED <<plistFile, brokenSrc, parseRes, pawRes, filterRes, fmt,
                   suppressFile, passRes>>

StoreDone(bug_id, file_name, res) ==
    /\ storeRes' = [n |-> calls + 1, op |-> "store", bug_id |-> bug_id,
                    file_name |-> file_name, ret |-> res.ret,
                    file_before |-> suppressFile, info_before |->
                    handler.suppress_info]
    /\ handler' = res.h
    /\ suppressFile' = res.file

\* store_suppress_bug_id(bug_id, file_name, comment)
Store ==
    /\ handler.state = "ready"
    /\ calls < MaxCalls
    /\ Len(suppressFile) < MaxRecords
    /\ \E bug_id \in Hashes, file_name \in FileNames :
         StoreDone(bug_id, file_name,
             store_suppress_bug_id(handler, suppressFile, bug_id, file_name,
                                   "c"))
    /\ calls' = calls + 1
    /\ UNCHANGED <<plistFile, brokenSrc, parseRes, pawRes, filterRes, fmt,
                   passRes>>

RemoveDone(bug_id, file_name, res) ==
    /\ storeRes' = [n |-> calls + 1, op |-> "remove", bug_id |-> bug_id,
                    file_name |-> file_name, ret |-> res.ret,
                    file_before |-> suppressFile, info_before |->
                    handler.suppress_info]
    /\ handler' = res.h
    /\ suppressFile' = res.file

\* remove_suppress_bug_id(bug_id, file_name)
Remove ==
    /\ handler.state = "ready"
    /\ calls < MaxCalls
    /\ \E bug_id \in Hashes, file_name \in FileNames :
         RemoveDone(bug_id, file_name,
             remove_suppress_bug_id(handler, suppressFile, bug_id,
                                    file_name))
    /\ calls' = calls + 1
    /\ UNCHANGED <<plistFile, brokenSrc, parseRes, pawRes, filterRes, fmt,
                   passRes>>

\* get_suppressed(bug)
Query ==
    /\ handler.state = "ready"
    /\ calls < MaxCalls
    /\ \E hash_value \in Hashes, file_path \in QueryPaths :
         storeRes' = [n |-> calls + 1, op |-> "get",
                      hash_value |-> hash_value, file_path |-> file_path,
                      ret |-> get_suppressed(handler,
                                  [hash_value |-> hash_value,
                                   file_path |-> file_path])]
    /\ calls' = calls + 1
    /\ UNCHANGED <<plistFile, brokenSrc, parseRes, pawRes, filterRes, fmt,
                   handler, suppressFile, passRes>>

InitStore ==
    /\ plistFile = Garbage
    /\ brokenSrc = {}
    /\ calls = 0
    /\ parseRes = Idle
    /\ pawRes = Idle
    /\ filterRes = Idle
    /\ fmt = PlainFormatter
    /\ handler = NoHandler
    /\ suppressFile \in SeqsUpTo(SuppressRecords, MaxRecords - 1)
    /\ storeRes = Idle
    /\ passRes = Idle

NextStore == Construct \/ Store \/ Remove \/ Query

SpecStore == InitStore /\ [][NextStore]_vars

(***************************************************************************)
(* Claims about the suppression store.                                     *)
(***************************************************************************)
\* The part of a path after its last separator.
IsLastComponent(name, path) ==
    /\ \A i \in 1..Len(name) : name[i] # "/"
    /\ \/ path = name
       \/ /\ Len(path) > Len(name)
          /\ path[Len(path) - Len(name)] = "/"
          /\ SubSeq(path, Len(path) - Len(name) + 1, Len(path)) = name

\* C5: a query is answered true exactly when the in-memory records hold a
\* record of the hash whose file name is the last component of the path;
\* so a record (H1, "a.c") answers for H1 at /x/a.c and at /y/a.c, and not
\* for H2 or for b.c.
BasenameScoped ==
    (storeRes.n > 0 /\ storeRes.op = "get") =>
        /\ storeRes.ret <=>
              \E i \in 1..Len(handler.suppress_info) :
                 /\ handler.suppress_info[i][1] = storeRes.hash_value
                 /\ IsLastComponent(handler.suppress_info[i][2],
                                    storeRes.file_path)
        /\ (/\ handler.suppress_info = << <<"H1", <<"a.c">>, "">> >>
            /\ storeRes.file_path \in {FileA, FileA2, FileB})
           => (storeRes.ret <=> (/\ storeRes.hash_value = "H1"
                                 /\ storeRes.file_path \in {FileA, FileA2}))

\* A record (H1, "a.c") answering for H1 at /y/a.c.
MatchedInOtherDirectory ==
    /\ storeRes.n > 0
    /\ storeRes.op = "get"
    /\ storeRes.ret
    /\ storeRes.hash_value = "H1"
    /\ storeRes.file_path = FileA2
    /\ handler.suppress_info = << <<"H1", <<"a.c">>, "">> >>

\* C10: the in-memory records of a writable store are the records of the
\* suppress file after construction and after every store and remove; a
\* stored record answers the next query and a removed one does not.
ReadAfterWrite ==
    (handler.state = "ready" /\ handler.allow_write) =>
        /\ handler.suppress_info = suppressFile
        /\ (storeRes.op = "store") =>
              /\ storeRes.ret
              /\ suppressFile = Append(storeRes.file_before,
                     <<storeRes.bug_id, storeRes.file_name, "c">>)
              /\ \A p \in QueryPaths :
                    IsLastComponent(storeRes.file_name, p) =>
                        get_suppressed(handler,
                            [hash_value |-> storeRes.bug_id, file_path |-> p])
        /\ (storeRes.op = "remove") =>
              \A p \in QueryPaths :
                 IsLastComponent(storeRes.file_name, p) =>
                     ~get_suppressed(handler,
                          [hash_value |-> storeRes.bug_id, file_path |-> p])

\* A writable store stored a record of a hash its file, which held other
\* records, did not hold: the file has grown by it.
StoredNewRecord ==
    /\ handler.state = "ready"
    /\ handler.allow_write
    /\ storeRes.op = "store"
    /\ storeRes.file_before # <<>>
    /\ \A i \in 1..Len(storeRes.file_before) :
          storeRes.file_before[i][1] # storeRes.bug_id
    /\ Len(suppressFile) = Len(storeRes.file_before) + 1

AnyQuery(h) ==
    \E hash_value \in Hashes, file_path \in QueryPaths :
        get_suppressed(h, [hash_value |-> hash_value,
                           file_path |-> file_path])

\* C11: construction without a suppress file fails exactly when writing is
\* asked for; a handler constructed without a suppress file and without
\* writing holds no record after any calls, answers no query with true,
\* and its store and remove leave the suppress file as it was.
NoBackendStore ==
    /\ handler.state = "ValueError" <=>
           /\ storeRes.n > 0
           /\ storeRes.op = "init"
           /\ ~storeRes.has_file
           /\ storeRes.allow_write
    /\ (handler.state = "ready" /\ ~handler.have_memory_backend) =>
           /\ ~handler.allow_write
           /\ handler.suppress_info = <<>>
           /\ ~AnyQuery(handler)
           /\ storeRes.op = "get" => ~storeRes.ret
           /\ storeRes.op \in {"store", "remove"} =>
                  /\ storeRes.ret
                  /\ suppressFile = storeRes.file_before

\* A handler without a suppress file was asked for a hash and a file that
\* a record of the suppress file names, and answered false.
NoBackendQueried ==
    /\ handler.state = "ready"
    /\ ~handler.have_memory_backend
    /\ storeRes.op = "get"
    /\ ~storeRes.ret
    /\ \E i \in 1..Len(suppressFile) :
          /\ suppressFile[i][1] = storeRes.hash_value
          /\ suppressFile[i][2] = basename(storeRes.file_path)

\* The handler h answers every query as it would with the records
\* info.
SameAnswers(h, info) ==
    \A hash_value \in Hashes, file_path \in QueryPaths :
        get_suppressed(h, [hash_value |-> hash_value,
                           file_path |-> file_path])
        <=> get_suppressed([h EXCEPT !.suppress_info = info],
                           [hash_value |-> hash_value,
                            file_path |-> file_path])

\* C12: store and remove on a handler that may not write return True and
\* leave the suppress file and the records in memory as they were, so
\* every query is answered as before.
ReadOnlyNoOp ==
    (/\ handler.state = "ready"
     /\ ~handler.allow_write
     /\ storeRes.op \in {"store", "remove"}) =>
        /\ storeRes.ret
        /\ suppressFile = storeRes.file_before
        /\ handler.suppress_info = storeRes.info_before
        /\ SameAnswers(handler, storeRes.info_before)

\* A handler that may not write, with a suppress file, was asked to remove
\* a record its file holds.
ReadOnlyRemoveAsked ==
    /\ handler.state = "ready"
    /\ ~handler.allow_write
    /\ handler.have_memory_backend
    /\ storeRes.op = "remove"
    /\ \E i \in 1..Len(storeRes.file_before) :
          /\ storeRes.file_before[i][1] = storeRes.bug_id
          /\ storeRes.file_before[i][2] = storeRes.file_name

(***************************************************************************)
(* The rendering pass.                                                     *)
(***************************************************************************)
FmtFiles == <<FileA, FileA2, FileB>>

FmtReport(h, chk, path) ==
    Report([check_name |-> chk, description |-> "d"] @@ (HashKey :> h),
           path, FmtFiles)

FmtReports ==
    { FmtReport("H1", "c1", <<Event(0, 1)>>),
      FmtReport("H1", "c1", <<Event(0, 2)>>),
      FmtReport("H2", "c2", <<Event(1, 1), Event(2, 1)>>),
      FmtReport("H2", "c2", <<Event(0, 1), Control(2, 2)>>) }

Formatter(suppress_handler, skip, print_steps) ==
    [suppress_handler |-> suppress_handler,
     skiplist_handler |-> skip,
     severity_map |-> [c1 |-> "HIGH"], print_steps |-> print_steps]

NoSkipHandler == [configured |-> FALSE, skip |-> {}]

FmtSkipHandlers == {NoSkipHandler, [configured |-> TRUE, skip |-> {FileB}]}

\* __write_bugs(output, reports, files, analyzed_source_file, report_stats)
WriteBugsDone(reports, analyzed, res) ==
    /\ passRes' = [n |-> calls + 1, reports |-> reports,
                   analyzed |-> analyzed, h_before |-> handler,
                   file_before |-> suppressFile, raised |-> res.raised,
                   output |-> res.output, stats |-> res.stats,
                   non_suppressed |-> res.non_suppressed, log |-> res.log]
    /\ handler' = res.h
    /\ suppressFile' = res.file

WriteBugs ==
    /\ calls < MaxPasses
    /\ \E reports \in SeqsUpTo(FmtReports, MaxReports),
          analyzed \in {<<>>, FileB} :
         WriteBugsDone(reports, analyzed,
             write_bugs(reports, FmtFiles, analyzed, fmt, handler,
                        suppressFile))
    /\ calls' = calls + 1
    /\ UNCHANGED <<plistFile, brokenSrc, parseRes, pawRes, filterRes, fmt,
                   storeRes>>

\* The formatter is constructed with or without a suppress handler, which
\* has a suppress file or none and may write or not.
InitFormat ==
    /\ plistFile = Garbage
    /\ brokenSrc = {}
    /\ calls = 0
    /\ parseRes = Idle
    /\ pawRes = Idle
    /\ filterRes = Idle
    /\ storeRes = Idle
    /\ passRes = Idle
    /\ \E skip \in FmtSkipHandlers, print_steps \in BOOLEAN :
         \/ /\ fmt = Formatter(FALSE, skip, print_steps)
            /\ handler = NoHandler
            /\ suppressFile = <<>>
         \/ /\ fmt = Formatter(TRUE, skip, print_steps)
            /\ suppressFile \in {<<>>, << <<"H1", <<"a.c">>, "">> >>}
            /\ \E allow_write \in BOOLEAN :
                  handler = SuppressHandlerInit(TRUE, allow_write,
                                                suppressFile)
         \/ /\ fmt = Formatter(TRUE, skip, print_steps)
            /\ suppressFile = <<>>
            /\ handler = SuppressHandlerInit(FALSE, FALSE, suppressFile)

NextFormat == WriteBugs

SpecFormat == InitFormat /\ [][NextFormat]_vars

(***************************************************************************)
(* Properties of the rendering pass.                                       *)
(***************************************************************************)
\* The file of the last event of the bug path, and that of its last step.
DisplayFile(report) ==
    Index(FmtFiles, Index(Events(report), -1).location.file)

ReportedFile(report) ==
    Index(FmtFiles, Index(report.bug_path, -1).location.file)

\* The reports of the last pass that left text in the output.
RenderedReps ==
    {passRes.output[j].rep : j \in {k \in 1..Len(passRes.output) :
                                       passRes.output[k].rep # 0}}

FateCount(fates) ==
    Cardinality({i \in 1..Len(passRes.log) : passRes.log[i].fate \in fates})

PassReturned == passRes.n > 0 /\ passRes.raised = NoExc

\* The number the summary line prints: none is printed for no defect.
SummaryCount ==
    IF passRes.output[Len(passRes.output)].w = "found"
    THEN passRes.output[Len(passRes.output)].text[1]
    ELSE 0

StatsAre(n) ==
    /\ SumValues(passRes.stats.severity) = n
    /\ SumValues(passRes.stats.files) = n
    /\ SumValues(passRes.stats.reports) = n

\* The finding of the log entry, as the store check of a later pass asks
\* for it, and as the inline check stored it.
BugOf(entry, file_path) ==
    [hash_value |-> passRes.reports[entry.rep].main[HashKey],
     file_path |-> file_path]

DisplayBug(entry) == BugOf(entry, DisplayFile(passRes.reports[entry.rep]))

ReportedBug(entry) == BugOf(entry, ReportedFile(passRes.reports[entry.rep]))

InlineEntries ==
    {i \in 1..Len(passRes.log) : passRes.log[i].fate = "inline"}

\* C6, as stated: a finding dropped for its inline suppression marker
\* leaves no text and no count and, with a suppress handler configured, is
\* suppressed in the handler after the pass for its hash and display file.
InlinePromoted ==
    passRes.n > 0 =>
        \A i \in InlineEntries :
            /\ passRes.log[i].rep \notin RenderedReps
            /\ PassReturned => StatsAre(Cardinality(RenderedReps))
            /\ fmt.suppress_handler =>
                  get_suppressed(handler, DisplayBug(passRes.log[i]))

\* C6, amended: a finding dropped for its inline suppression marker leaves
\* no text and no count; when the configured suppress handler may write,
\* it is suppressed after the pass for its hash and the file of its last
\* path step, and when the handler may not write the suppress file is as
\* it was before the pass.
InlinePromotedWhenWritable ==
    passRes.n > 0 =>
        \A i \in InlineEntries :
            /\ passRes.log[i].rep \notin RenderedReps
            /\ PassReturned => StatsAre(Cardinality(RenderedReps))
            /\ fmt.suppress_handler /\ handler.allow_write =>
                  get_suppressed(handler, ReportedBug(passRes.log[i]))
            /\ ~(fmt.suppress_handler /\ handler.allow_write)
                  => /\ suppressFile = passRes.file_before
                     /\ handler = passRes.h_before

\* A pass over a writable store dropped a finding for its inline marker,
\* and the store did not hold the finding before the pass.
InlineStoredByPass ==
    /\ PassReturned
    /\ fmt.suppress_handler /\ handler.allow_write
    /\ \E i \in InlineEntries :
          /\ ~get_suppressed(passRes.h_before, ReportedBug(passRes.log[i]))
          /\ get_suppressed(handler, ReportedBug(passRes.log[i]))
          /\ get_suppressed(handler, DisplayBug(passRes.log[i]))

\* C7: when a pass returns, the severity counts, the file counts and the
\* report count all sum to the number of findings that left text in the
\* output, which is the number of the summary line.
StatsConsistent ==
    PassReturned =>
        /\ StatsAre(Cardinality(RenderedReps))
        /\ SummaryCount = Cardinality(RenderedReps)
        /\ passRes.non_suppressed = Cardinality(RenderedReps)

\* A pass over two findings returned: it rendered one of them and dropped
\* the other for the suppress handler or for an inline marker.
RenderedAndDropped ==
    /\ PassReturned
    /\ Len(passRes.reports) = 2
    /\ Cardinality(RenderedReps) = 1
    /\ FateCount({"inline", "suppressed"}) = 1

\* C8: a finding whose display file the skip list excludes, or which the
\* suppress handler reports as suppressed, is dropped silently: the loop
\* goes on (no exception leaves the pass for it) and it leaves no text.
DroppedSilently ==
    passRes.n > 0 =>
        \A i \in 1..Len(passRes.log) :
            passRes.log[i].fate \in {"skipped", "suppressed"} =>
                /\ passRes.log[i].rep \notin RenderedReps
                /\ i = Len(passRes.log) => passRes.raised = NoExc

(***************************************************************************)
(* The rendering pass over records with defective or long bug paths.       *)
(***************************************************************************)
EdgeReports ==
    { FmtReport("H1", "c1", <<Event(0, 1)>>),
      FmtReport("H1", "c1", <<>>),
      FmtReport("H1", "c1", <<Control(0, 1)>>),
      FmtReport("H2", "c2", <<Event(3, 1)>>),
      FmtReport("H2", "c1", <<Event(0, 1), Control(0, 1)>>),
      FmtReport("H2", "c2", [j \in 1..10 |-> Event(j % 2, j)]) }

\* __write_bugs(output, reports, files, analyzed_source_file, report_stats)
WriteBugsEdge ==
    /\ calls < MaxPasses
    /\ \E reports \in SeqsUpTo(EdgeReports, MaxReports) :
         WriteBugsDone(reports, FileA,
             write_bugs(reports, FmtFiles, FileA, fmt, handler,
                        suppressFile))
    /\ calls' = calls + 1
    /\ UNCHANGED <<plistFile, brokenSrc, parseRes, pawRes, filterRes, fmt,
                   storeRes>>

InitEdge ==
    /\ plistFile = Garbage
    /\ brokenSrc = {}
    /\ calls = 0
    /\ parseRes = Idle
    /\ pawRes = Idle
    /\ filterRes = Idle
    /\ storeRes = Idle
    /\ passRes = Idle
    /\ handler = NoHandler
    /\ suppressFile = <<>>
    /\ \E skip \in FmtSkipHandlers, print_steps \in BOOLEAN :
         fmt = Formatter(FALSE, skip, print_steps)

NextEdge == WriteBugsEdge

SpecEdge == InitEdge /\ [][NextEdge]_vars

\* C13: every rendering pass completes without raising and returns the
\* severity, file and report statistics.
PassAlwaysReturns ==
    passRes.n > 0 =>
        /\ passRes.raised = NoExc
        /\ DOMAIN passRes.stats = {"severity", "files", "reports"}

\* C14: when every finding of a pass is dropped, for the skip list, the
\* suppress handler or an inline marker, or there is no finding, the pass
\* returns, its only output is the line "Found no defects while analyzing"
\* with the base name of the analyzed file when one is given, and the
\* three statistics are empty.
ZeroSurvivors ==
    (/\ passRes.n > 0
     /\ \A i \in 1..Len(passRes.log) :
           passRes.log[i].fate \in {"skipped", "suppressed", "inline"}) =>
        /\ passRes.raised = NoExc
        /\ passRes.output
             = <<Item("found_none", 0, BasefilePrint(passRes.analyzed))>>
        /\ passRes.stats = [severity |-> <<>>, files |-> <<>>,
                            reports |-> <<>>]

\* The bug path of the record has steps, none of kind event, and its last
\* step is in a file of the file table.
NoEventStep(report) ==
    /\ report.bug_path # <<>>
    /\ Events(report) = <<>>
    /\ InRange(FmtFiles, Index(report.bug_path, -1).location.file)

\* C15: a rendered record is counted under the file of its last event;
\* a record without an event step is handled under the file of its last
\* path step and does not end the pass with an error.
NoEventFallsBack ==
    passRes.n > 0 =>
        \A i \in 1..Len(passRes.log) :
            /\ passRes.log[i].fate = "rendered" /\ PassReturned =>
                  DisplayFile(passRes.reports[passRes.log[i].rep])
                      \in DOMAIN passRes.stats.files
            /\ NoEventStep(passRes.reports[passRes.log[i].rep]) =>
                  passRes.log[i].fate # "raised"

(***************************************************************************)
(* More claims about the parser.                                           *)
(***************************************************************************)
\* The diagnostic carries a hash: the field is there and is not empty.
CarriesHash(diag) == Has(diag, HashKey) /\ diag[HashKey] # ""

\* The diagnostics of the parsed bundle that got a record.
Processed == 1..Len(parseRes.res.reports)

\* C16: the hash of every record either is the hash the diagnostic carried,
\* and then the diagnostic does not mark the bundle dirty, or is derived,
\* and then the bundle is marked dirty and the hash is set in the
\* diagnostic that a rewrite persists.
HashProvenance ==
    parseRes.n > 0 =>
        /\ \A i \in Processed :
              IF CarriesHash(DiagnosticsOf(parseRes.before)[i])
              THEN parseRes.res.reports[i].main[HashKey]
                     = DiagnosticsOf(parseRes.before)[i][HashKey]
              ELSE /\ parseRes.res.dirty
                   /\ parseRes.res.wrote =>
                         Get(DiagnosticsOf(parseRes.res.content)[i], HashKey)
                           = parseRes.res.reports[i].main[HashKey]
        /\ (/\ parseRes.res.logged = NoExc
            /\ \A i \in Processed :
                  CarriesHash(DiagnosticsOf(parseRes.before)[i]))
              => ~parseRes.res.dirty

Parsable(content) ==
    /\ content.kind = "plist"
    /\ content.root.type = "dict"
    /\ Has(content.root.val, "files")
    /\ Has(content.root.val, "diagnostics")

\* Processing of the diagnostic fails: its location is missing or outside
\* the file table, it has no path, or its hash is to be derived from a
\* source file that cannot be read.
Defective(diag, files, source_root, broken) ==
    \/ ~Has(diag, "location")
    \/ ~InRange(files, diag.location.file)
    \/ ~Has(diag, "path")
    \/ /\ ~CarriesHash(diag)
       /\ FilePath(Index(files, diag.location.file), source_root) \in broken

DefectiveAt(content, source_root, broken) ==
    {k \in 1..Len(DiagnosticsOf(content)) :
        Defective(DiagnosticsOf(content)[k], FileTableOf(content),
                  source_root, broken)}

FirstOf(S) == CHOOSE k \in S : \A j \in S : k <= j

\* C19: when the processing of some diagnostic of a bundle fails, the
\* parse returns the records of the diagnostics before the first failing
\* one, in their order, and the whole file table, and does not rewrite
\* the bundle.
LoopStopsAtFailure ==
    (/\ parseRes.n > 0
     /\ Parsable(parseRes.before)
     /\ DefectiveAt(parseRes.before, parseRes.source_root, brokenSrc) # {})
    =>
        /\ Len(parseRes.res.reports)
             = FirstOf(DefectiveAt(parseRes.before, parseRes.source_root,
                                   brokenSrc)) - 1
        /\ \A i \in Processed :
              /\ parseRes.res.reports[i].bug_path
                   = DiagnosticsOf(parseRes.before)[i].path
              /\ parseRes.res.reports[i].main.location
                   = DiagnosticsOf(parseRes.before)[i].location
              /\ parseRes.res.reports[i].files = FileTableOf(parseRes.before)
        /\ parseRes.res.files = FileTableOf(parseRes.before)
        /\ parseRes.res.logged # NoExc
        /\ ~parseRes.res.wrote
        /\ plistFile = parseRes.before

\* A parse that was allowed to rewrite derived a hash for the first
\* diagnostic and failed at the second: one record, no rewrite.
DirtyButFailedLater ==
    /\ parseRes.n > 0
    /\ Parsable(parseRes.before)
    /\ DefectiveAt(parseRes.before, parseRes.source_root, brokenSrc) = {2}
    /\ ~Has(DiagnosticsOf(parseRes.before)[1], HashKey)
    /\ parseRes.allow_plist_update
    /\ parseRes.res.dirty
    /\ Len(parseRes.res.reports) = 1

(***************************************************************************)
(* More claims about the rendering pass.                                   *)
(***************************************************************************)
\* What the pass wrote for the steps of its report rep: the index and the
\* text of each step.
StepItems(rep) ==
    FilterSeq(passRes.output,
              [k \in 1..Len(passRes.output) |->
                  /\ passRes.output[k].rep = rep
                  /\ passRes.output[k].w \in {"index", "step"}])

\* The step entries the finding at rep is to be followed by: its events in
\* path order, numbered from 1 in the width of their count, each without
\* severity and checker name.
StepsNumberedFor(rep, events) ==
    /\ Len(StepItems(rep)) = 2 * Len(events)
    /\ \A j \in 1..Len(events) :
          /\ StepItems(rep)[2 * j - 1]
               = Item("index", rep, <<j, Digits(Len(events))>>)
          /\ StepItems(rep)[2 * j]
               = Item("step", rep,
                      <<basename(Index(FmtFiles, events[j].location.file)),
                        events[j].location.line, events[j].location.col,
                        events[j].message>>)

\* C18: with print_steps, every rendered finding is followed by one entry
\* for each of its event steps, in path order, numbered 1, 2, ... in the
\* width of the number of digits of its step count, without severity and
\* checker name.
StepsNumbered ==
    (passRes.n > 0 /\ fmt.print_steps) =>
        \A i \in 1..Len(passRes.log) :
            passRes.log[i].fate = "rendered" =>
                StepsNumberedFor(passRes.log[i].rep,
                                 Events(passRes.reports[passRes.log[i].rep]))

\* The line of the last path step of the record carries an inline marker
\* for its checker.
HasMarker(report) ==
    MarkersAt(ReportedFile(report),
              Index(report.bug_path, -1).location.line,
              report.main.check_name) # {}

MayWrite == fmt.suppress_handler /\ handler.allow_write

\* C20: in every configuration of the suppress handler a finding with an
\* inline marker that is neither skipped nor suppressed by the handler is
\* dropped: no text, no count.  The suppress file and the records of the
\* handler change in a pass only when a handler is configured and may
\* write; otherwise a finding dropped for its marker is dropped for its
\* marker again when it comes again, never by the suppress handler.
InlineInEveryConfiguration ==
    passRes.n > 0 =>
        /\ \A i \in 1..Len(passRes.log) :
              (/\ HasMarker(passRes.reports[passRes.log[i].rep])
               /\ passRes.log[i].fate \notin {"skipped", "suppressed"}) =>
                  /\ passRes.log[i].fate = "inline"
                  /\ passRes.log[i].rep \notin RenderedReps
        /\ PassReturned => StatsAre(Cardinality(RenderedReps))
        /\ (suppressFile # passRes.file_before
            \/ handler # passRes.h_before) =>
               MayWrite /\ InlineEntries # {}
        /\ ~MayWrite =>
              \A i \in InlineEntries, j \in 1..Len(passRes.log) :
                  (/\ i < j
                   /\ passRes.reports[passRes.log[j].rep]
                        = passRes.reports[passRes.log[i].rep]) =>
                      passRes.log[j].fate = "inline"

\* A pass over the same finding twice, with a suppress handler that has a
\* suppress file and may not write: dropped for its marker both times.
InlineTwiceReadOnly ==
    /\ PassReturned
    /\ fmt.suppress_handler
    /\ handler.have_memory_backend
    /\ ~handler.allow_write
    /\ Len(passRes.log) = 2
    /\ passRes.reports[1] = passRes.reports[2]
    /\ InlineEntries = {1, 2}

====
